---------------------------- MODULE Spec2Model ----------------------------
(***************************************************************************)
(* Model of the metro-line routing pipeline:                               *)
(*   src/src/encode.py   problem description -> CNF + variable map         *)
(*   (external solver)   CNF -> UNSAT | set of true variable ids           *)
(*   src/src/decode.py   solver output + variable map -> metromap          *)
(*   src/format_checker.py  (problem, metromap) -> verdict                 *)
(*                                                                         *)
(* A symbolic variable name such as "E_0_1_2_R" is modelled by the tuple   *)
(* of its "_"-separated fields, <<"E", 0, 1, 2, "R">>: the f-string that   *)
(* builds the name and the split("_") that reads it back are inverse on    *)
(* these fields.  The prefix "s_k3" of a counter name is the field pair    *)
(* <<"s_k", 3>>.  A cell is a pair <<x, y>>.  A clause is a sequence of    *)
(* signed variable ids.                                                    *)
(***************************************************************************)
EXTENDS Integers, Sequences, FiniteSets, TLC

VARIABLES
    pc,            \* position in the pipeline
    prob,          \* the parsed problem description (encode.py:34-69)
    var_to_id,     \* encode.py:72
    id_to_var,     \* encode.py:74
    next_var,      \* encode.py:75
    clauses,       \* encode.py:73
    satfile,       \* header of the written .satinput (its clauses are `clauses`)
    sat_status,    \* first line of the solver output: "SAT" | "UNSAT" | "none"
    true_vars_ids, \* decode.py:46, the positive ids of the solver output
    outmap,        \* the written .metromap (sequence of token lines)
    exit_status,   \* exit status of the script that ran last
    call           \* the arguments and result of a function called on its own

vars == <<pc, prob, var_to_id, id_to_var, next_var, clauses, satfile,
          sat_status, true_vars_ids, outmap, exit_status, call>>

NoCall == [fn |-> "none"]

----------------------------------------------------------------------------
(* Bounds of the model *)

MaxN == 3
MaxM == 2
MaxCells == 4
MaxK == 2
MaxJ == 2
MaxP == 1

----------------------------------------------------------------------------
(* Constants of encode.py / decode.py *)

DIRS == [d \in {"R", "L", "U", "D"} |->
            CASE d = "R" -> <<1, 0>>
              [] d = "L" -> <<-1, 0>>
              [] d = "U" -> <<0, -1>>
              [] d = "D" -> <<0, 1>>]

DIRS_LIST == <<"R", "L", "U", "D">>

REV_DIRS == [d \in {"R", "L", "U", "D"} |->
            CASE d = "R" -> "L"
              [] d = "L" -> "R"
              [] d = "U" -> "D"
              [] d = "D" -> "U"]

\* the pairs without the horizontal ones
STRAIGHT_PAIRS_vertical_only == {<<"U", "D">>, <<"D", "U">>}

STRAIGHT_PAIRS == {<<"R", "L">>, <<"L", "R">>, <<"U", "D">>, <<"D", "U">>}

----------------------------------------------------------------------------
(* Generic sequence helpers *)

RECURSIVE Flatten(_)
Flatten(ss) == IF ss = <<>> THEN <<>> ELSE Head(ss) \o Flatten(Tail(ss))

Range(s) == {s[i] : i \in DOMAIN s}

\* range(n) of Python as the index set 0..n-1 (empty when n <= 0)
PyRange(n) == 0 .. (n - 1)

\* itertools.combinations(s, r), in the order Python yields them
RECURSIVE combinations(_, _)
combinations(s, r) ==
    IF r = 0 THEN << <<>> >>
    ELSE IF Len(s) < r THEN <<>>
    ELSE LET rest == combinations(Tail(s), r - 1)
         IN  [i \in 1..Len(rest) |-> <<Head(s)>> \o rest[i]]
             \o combinations(Tail(s), r)

Neg(c) == [i \in 1..Len(c) |-> -c[i]]

InGrid(N, M, c) == 0 <= c[1] /\ c[1] < N /\ 0 <= c[2] /\ c[2] < M

Step(c, D) == <<c[1] + DIRS[D][1], c[2] + DIRS[D][2]>>

\* the cells in the order of "for x in range(N): for y in range(M)"
CellSeq(N, M) ==
    IF N <= 0 \/ M <= 0 THEN <<>>
    ELSE [i \in 1..(N * M) |-> <<(i - 1) \div M, (i - 1) % M>>]

\* the directions D of DIRS_LIST, in order, whose step from c stays in the grid
RECURSIVE FilterSeq(_, _)
FilterSeq(s, keep) ==
    IF s = <<>> THEN <<>>
    ELSE (IF Head(s) \in keep THEN <<Head(s)>> ELSE <<>>) \o FilterSeq(Tail(s), keep)

GridDirs(N, M, c) == FilterSeq(DIRS_LIST, {D \in Range(DIRS_LIST) : InGrid(N, M, Step(c, D))})

----------------------------------------------------------------------------
(* Variable and clause management: the encoder context.                    *)
(* ctx.err records an uncaught Python exception; once it is set the        *)
(* script has stopped and the remaining steps do nothing.                  *)

EmptyFn == [x \in {} |-> 0]

InitCtx == [var_to_id |-> EmptyFn, id_to_var |-> EmptyFn, next_var |-> 1,
            clauses |-> <<>>, err |-> ""]

\* Python's str(vid) for vid >= 0: the decimal digits, most significant first
RECURSIVE str(_)
str(vid) == IF vid < 10 THEN <<vid>> ELSE str(vid \div 10) \o <<vid % 10>>

\* new_var without the test for a known name
new_var_always_allocates(ctx, name) ==
    [ctx EXCEPT !.var_to_id = (name :> ctx.next_var) @@ @,
                !.id_to_var = (str(ctx.next_var) :> name) @@ @,
                !.next_var = @ + 1]

\* new_var: the context after the call
new_var(ctx, name) ==
    IF name \in DOMAIN ctx.var_to_id THEN ctx
    ELSE [ctx EXCEPT !.var_to_id = (name :> ctx.next_var) @@ @,
                     !.id_to_var = (str(ctx.next_var) :> name) @@ @,
                     !.next_var = @ + 1]

\* new_var: the id it returns
new_var_ret(ctx, name) ==
    IF name \in DOMAIN ctx.var_to_id THEN ctx.var_to_id[name] ELSE ctx.next_var

RECURSIVE new_vars(_, _)
new_vars(ctx, names) ==
    IF names = <<>> THEN ctx ELSE new_vars(new_var(ctx, Head(names)), Tail(names))

add_clauses(ctx, cs) == [ctx EXCEPT !.clauses = @ \o cs]

Raise(ctx, e) == [ctx EXCEPT !.err = e]

----------------------------------------------------------------------------
(* Symbolic names (encode.py:165-181, 116) *)

LName(k, c) == <<"L", k, c[1], c[2]>>
TName(k, c) == <<"T", k, c[1], c[2]>>
SName(k, c) == <<"S", k, c[1], c[2]>>
EName(k, c, D) == <<"E", k, c[1], c[2], D>>
CounterName(prefix, i, j) == prefix \o <<i, j>>

\* the lines of lines_spec are indexed 0..K-1 as in Python
LineStart(p, k) == p.lines_spec[k + 1][1]
LineEnd(p, k) == p.lines_spec[k + 1][2]
NumLines(p) == Len(p.lines_spec)

IsEndpoint(p, k, c) == c = LineStart(p, k) \/ c = LineEnd(p, k)

----------------------------------------------------------------------------
(* Variable definitions, encode.py:158-181 *)

\* the names one cell of one line asks new_var for, in call order
CellVarNames(p, k, c) ==
    <<LName(k, c)>>
    \o (IF ~IsEndpoint(p, k, c) THEN <<TName(k, c)>> ELSE <<>>)
    \o <<SName(k, c)>>
    \o [i \in 1..Len(GridDirs(p.N, p.M, c)) |-> EName(k, c, GridDirs(p.N, p.M, c)[i])]

LineVarNames(p, k) ==
    Flatten([i \in 1..Len(CellSeq(p.N, p.M)) |-> CellVarNames(p, k, CellSeq(p.N, p.M)[i])])

define_variables(ctx, p) ==
    new_vars(ctx, Flatten([k1 \in 1..NumLines(p) |-> LineVarNames(p, k1 - 1)]))

\* the dictionaries L_vars, T_vars, S_vars, E_vars hold what new_var returned for
\* the name, so a lookup is a lookup of the name in var_to_id
HasL(ctx, k, c) == LName(k, c) \in DOMAIN ctx.var_to_id
HasT(ctx, k, c) == TName(k, c) \in DOMAIN ctx.var_to_id
HasE(ctx, k, c, D) == EName(k, c, D) \in DOMAIN ctx.var_to_id
L_vars(ctx, k, c) == ctx.var_to_id[LName(k, c)]
T_vars(ctx, k, c) == ctx.var_to_id[TName(k, c)]
S_vars(ctx, k, c) == ctx.var_to_id[SName(k, c)]
E_vars(ctx, k, c, D) == ctx.var_to_id[EName(k, c, D)]

\* cells_lines[(x,y)]: the L ids of the cell, one per line in index order;
\* the key exists for the cells of the grid when there is at least one line
HasCellsLines(p, c) == NumLines(p) >= 1 /\ InGrid(p.N, p.M, c)
cells_lines(ctx, p, c) == [k1 \in 1..NumLines(p) |-> L_vars(ctx, k1 - 1, c)]

----------------------------------------------------------------------------
(* Clause helpers, encode.py:89-101 *)

\* at_most_one(var_list): the clauses it adds, in order
at_most_one(var_list) ==
    Flatten([i \in 1..Len(var_list) |->
        [j1 \in 1..(Len(var_list) - i) |-> <<-var_list[i], -var_list[i + j1]>>]])

\* exactly_k_if_L raises ValueError when combinations() gets a negative r
exactly_k_if_L_raises(e_vars, k) == k > 0 /\ Len(e_vars) - k + 1 < 0

\* exactly_k_if_L(l_var, e_vars, k): the clauses it adds, in order
\* exactly_k_if_L with the at-most-k clauses only
exactly_k_if_L_at_most_only(l_var, e_vars, k) ==
    LET n == Len(e_vars)
        over == IF n > k THEN combinations(e_vars, k + 1) ELSE <<>>
    IN  [i \in 1..Len(over) |-> <<-l_var>> \o Neg(over[i])]

exactly_k_if_L(l_var, e_vars, k) ==
    LET n == Len(e_vars)
        over == IF n > k THEN combinations(e_vars, k + 1) ELSE <<>>
        under == IF k > 0 THEN combinations(e_vars, n - k + 1) ELSE <<>>
    IN  [i \in 1..Len(over) |-> <<-l_var>> \o Neg(over[i])]
        \o [i \in 1..Len(under) |-> <<-l_var>> \o under[i]]

----------------------------------------------------------------------------
(* Sequential counter, encode.py:104-153 *)

\* sequential_matrix[i][j] is the id new_var gave to f"{prefix}_{i}_{j}"
CounterNames(num_vars, k, prefix) ==
    Flatten([i1 \in 1..num_vars |->
        [j1 \in 1..(k + 1) |-> CounterName(prefix, i1 - 1, j1 - 1)]])

seq_matrix(ctx, prefix, i, j) == ctx.var_to_id[CounterName(prefix, i, j)]

\* _initialize_base_constraints
initialize_base_constraints(ctx, variables, k, prefix) ==
    <<  <<-variables[1], seq_matrix(ctx, prefix, 0, 0)>>  >>
    \o [j \in 1..k |-> <<-seq_matrix(ctx, prefix, 0, j)>>]

\* _propagate_constraints without the clauses that carry the count upward
propagate_constraints_no_carry(ctx, i, variables, k, prefix) ==
    [j1 \in 1..(k + 1) |->
        <<-seq_matrix(ctx, prefix, i - 1, j1 - 1), seq_matrix(ctx, prefix, i, j1 - 1)>>]
    \o << <<-variables[i + 1], seq_matrix(ctx, prefix, i, 0)>> >>

\* _propagate_constraints for variable index i (0-based, i >= 1)
propagate_constraints(ctx, i, variables, k, prefix) ==
    [j1 \in 1..(k + 1) |->
        <<-seq_matrix(ctx, prefix, i - 1, j1 - 1), seq_matrix(ctx, prefix, i, j1 - 1)>>]
    \o << <<-variables[i + 1], seq_matrix(ctx, prefix, i, 0)>> >>
    \o [j \in 1..k |->
        <<-variables[i + 1], -seq_matrix(ctx, prefix, i - 1, j - 1),
          seq_matrix(ctx, prefix, i, j)>>]

add_at_most_k_constraint(ctx, variables, k, prefix) ==
    LET num_vars == Len(variables)
        c1 == new_vars(ctx, CounterNames(num_vars, k, prefix))
    IN  IF num_vars <= k THEN ctx
        ELSE IF k + 1 <= 0 THEN Raise(c1, "IndexError")  \* seq_matrix[0][0] of an empty row
        ELSE add_clauses(c1,
                initialize_base_constraints(c1, variables, k, prefix)
                \o Flatten([i \in 1..(num_vars - 1) |->
                        propagate_constraints(c1, i, variables, k, prefix)])
                \o << <<-seq_matrix(c1, prefix, num_vars - 1, k)>> >>)

----------------------------------------------------------------------------
(* The constraints, encode.py:185-315.  Each takes the encoder context and *)
(* returns it with the clauses (and counter variables) it adds.            *)

\* the E ids of cell c of line k that exist, in DIRS_LIST order
incident_edges(ctx, p, k, c) ==
    LET ds == FilterSeq(DIRS_LIST, {D \in Range(DIRS_LIST) : HasE(ctx, k, c, D)})
    IN  [i \in 1..Len(ds) |-> E_vars(ctx, k, c, ds[i])]

enforce_unique_occupancy(ctx, p) ==
    LET cs == IF NumLines(p) >= 1 THEN CellSeq(p.N, p.M) ELSE <<>>
    IN  add_clauses(ctx, Flatten([i \in 1..Len(cs) |->
            IF Len(cells_lines(ctx, p, cs[i])) > 1
            THEN at_most_one(cells_lines(ctx, p, cs[i]))
            ELSE <<>>]))

\* the clauses of one (k, x, y, D) item of E_vars
edge_location_clauses(ctx, k, c, D) ==
    LET evid == E_vars(ctx, k, c, D)
        n == Step(c, D)
    IN  << <<-evid, L_vars(ctx, k, c)>>, <<-evid, L_vars(ctx, k, n)>> >>
        \o (IF HasE(ctx, k, n, REV_DIRS[D])
            THEN << <<-evid, E_vars(ctx, k, n, REV_DIRS[D])>>,
                    <<-E_vars(ctx, k, n, REV_DIRS[D]), evid>> >>
            ELSE << <<-evid>> >>)

enforce_edge_location_consistency(ctx, p) ==
    LET cs == CellSeq(p.N, p.M)
    IN  add_clauses(ctx, Flatten([k1 \in 1..NumLines(p) |->
            Flatten([i \in 1..Len(cs) |->
                Flatten([d \in 1..Len(GridDirs(p.N, p.M, cs[i])) |->
                    edge_location_clauses(ctx, k1 - 1, cs[i], GridDirs(p.N, p.M, cs[i])[d])])])]))

\* the clauses of a cell with every cell treated as a non-endpoint
continuity_cell_no_endpoints(ctx, p, k, c) ==
    LET lvid == L_vars(ctx, k, c)
        inc == incident_edges(ctx, p, k, c)
    IN  exactly_k_if_L(lvid, inc, 2) \o [i \in 1..Len(inc) |-> <<lvid, -inc[i]>>]

\* the clauses of one cell of enforce_path_continuity
continuity_cell(ctx, p, k, c) ==
    LET lvid == L_vars(ctx, k, c)
        inc == incident_edges(ctx, p, k, c)
    IN  IF IsEndpoint(p, k, c)
        THEN exactly_k_if_L(lvid, inc, 1)
        ELSE exactly_k_if_L(lvid, inc, 2)
             \o [i \in 1..Len(inc) |-> <<lvid, -inc[i]>>]

continuity_cell_raises(ctx, p, k, c) ==
    exactly_k_if_L_raises(incident_edges(ctx, p, k, c), IF IsEndpoint(p, k, c) THEN 1 ELSE 2)

RECURSIVE continuity_cells(_, _, _, _)
continuity_cells(ctx, p, k, cs) ==
    IF cs = <<>> THEN ctx
    ELSE IF continuity_cell_raises(ctx, p, k, Head(cs)) THEN Raise(ctx, "ValueError")
    ELSE continuity_cells(add_clauses(ctx, continuity_cell(ctx, p, k, Head(cs))), p, k, Tail(cs))

continuity_line(ctx, p, k) ==
    IF ~HasL(ctx, k, LineStart(p, k)) THEN Raise(ctx, "KeyError")
    ELSE IF ~HasL(ctx, k, LineEnd(p, k))
    THEN Raise(add_clauses(ctx, << <<L_vars(ctx, k, LineStart(p, k))>> >>), "KeyError")
    ELSE continuity_cells(
            add_clauses(ctx, << <<L_vars(ctx, k, LineStart(p, k))>>,
                                <<L_vars(ctx, k, LineEnd(p, k))>> >>),
            p, k, CellSeq(p.N, p.M))

RECURSIVE continuity_lines(_, _, _)
continuity_lines(ctx, p, k) ==
    IF k >= NumLines(p) \/ ctx.err # "" THEN ctx
    ELSE continuity_lines(continuity_line(ctx, p, k), p, k + 1)

enforce_path_continuity(ctx, p) == continuity_lines(ctx, p, 0)

\* the pairs (D1, D2) of the double loop over DIRS_LIST, in order
DirPairs ==
    Flatten([i \in 1..(Len(DIRS_LIST) - 1) |->
        [j1 \in 1..(Len(DIRS_LIST) - i) |-> <<DIRS_LIST[i], DIRS_LIST[i + j1]>>]])

\* the clauses of a T variable without those that force it true at a turn
turn_cell_never_forced(ctx, k, c) ==
    LET t_var == T_vars(ctx, k, c)
        l_var == L_vars(ctx, k, c)
    IN  << <<-t_var, l_var>> >>
        \o Flatten([i \in 1..Len(DirPairs) |->
            LET D1 == DirPairs[i][1]
                D2 == DirPairs[i][2]
            IN  IF HasE(ctx, k, c, D1) /\ HasE(ctx, k, c, D2)
                THEN IF <<D1, D2>> \notin STRAIGHT_PAIRS
                     THEN <<>>
                     ELSE << <<-l_var, -E_vars(ctx, k, c, D1), -E_vars(ctx, k, c, D2), -t_var>> >>
                ELSE <<>>])

\* the clauses of one (k, x, y) item of T_vars
turn_cell(ctx, k, c) ==
    LET t_var == T_vars(ctx, k, c)
        l_var == L_vars(ctx, k, c)
    IN  << <<-t_var, l_var>> >>
        \o Flatten([i \in 1..Len(DirPairs) |->
            LET D1 == DirPairs[i][1]
                D2 == DirPairs[i][2]
            IN  IF HasE(ctx, k, c, D1) /\ HasE(ctx, k, c, D2)
                THEN IF <<D1, D2>> \notin STRAIGHT_PAIRS
                     THEN << <<-l_var, -E_vars(ctx, k, c, D1), -E_vars(ctx, k, c, D2), t_var>> >>
                     ELSE << <<-l_var, -E_vars(ctx, k, c, D1), -E_vars(ctx, k, c, D2), -t_var>> >>
                ELSE <<>>])

\* the cells of line k that have a T variable, in the order of T_vars.items()
TurnCells(ctx, p, k) ==
    LET cs == CellSeq(p.N, p.M)
    IN  FilterSeq(cs, {c \in Range(cs) : HasT(ctx, k, c)})

turn_line(ctx, p, k) ==
    LET tc == TurnCells(ctx, p, k)
        turn_vars_for_line == [i \in 1..Len(tc) |-> T_vars(ctx, k, tc[i])]
        c1 == add_clauses(ctx, Flatten([i \in 1..Len(tc) |-> turn_cell(ctx, k, tc[i])]))
    IN  IF turn_vars_for_line # <<>>
        THEN add_at_most_k_constraint(c1, turn_vars_for_line, p.J, <<"s_k", k>>)
        ELSE c1

RECURSIVE turn_lines(_, _, _)
turn_lines(ctx, p, k) ==
    IF k >= NumLines(p) \/ ctx.err # "" THEN ctx
    ELSE turn_lines(turn_line(ctx, p, k), p, k + 1)

enforce_turn_constraints(ctx, p) == turn_lines(ctx, p, 0)

connectivity_line(ctx, p, k) ==
    LET cs == CellSeq(p.N, p.M)
    IN  << <<S_vars(ctx, k, LineStart(p, k))>> >>
        \o Flatten([i \in 1..Len(cs) |->
               LET ds == FilterSeq(DIRS_LIST, {D \in Range(DIRS_LIST) : HasE(ctx, k, cs[i], D)})
               IN  [d \in 1..Len(ds) |->
                      <<-S_vars(ctx, k, cs[i]), -E_vars(ctx, k, cs[i], ds[d]),
                        S_vars(ctx, k, Step(cs[i], ds[d]))>>]])
        \o [i \in 1..Len(cs) |-> <<-L_vars(ctx, k, cs[i]), S_vars(ctx, k, cs[i])>>]

enforce_path_connectivity(ctx, p) ==
    add_clauses(ctx, Flatten([k1 \in 1..NumLines(p) |-> connectivity_line(ctx, p, k1 - 1)]))

\* the constraint with a popular cell that has no candidate left out
enforce_popular_cell_constraint_skips(ctx, p) ==
    IF p.mode # 2 \/ p.popular = <<>> THEN ctx
    ELSE add_clauses(ctx, Flatten([i \in 1..Len(p.popular) |->
            IF HasCellsLines(p, p.popular[i])
            THEN << cells_lines(ctx, p, p.popular[i]) >>
            ELSE <<>>]))

enforce_popular_cell_constraint(ctx, p) ==
    IF p.mode # 2 \/ p.popular = <<>> THEN ctx
    ELSE add_clauses(ctx, Flatten([i \in 1..Len(p.popular) |->
            IF HasCellsLines(p, p.popular[i])
            THEN << cells_lines(ctx, p, p.popular[i]) >>
            ELSE << <<1>>, <<-1>> >>]))

\* one step of the script: skipped once an exception has been raised
Then(ctx, p, f(_, _)) == IF ctx.err # "" THEN ctx ELSE f(ctx, p)

apply_all_constraints(ctx, p) ==
    Then(Then(Then(Then(Then(Then(ctx,
        p, enforce_unique_occupancy),
        p, enforce_edge_location_consistency),
        p, enforce_path_continuity),
        p, enforce_turn_constraints),
        p, enforce_path_connectivity),
        p, enforce_popular_cell_constraint)

\* encode.py as a whole: the context when the script ends or raises
encode(p) == apply_all_constraints(define_variables(InitCtx, p), p)

----------------------------------------------------------------------------
(* The external SAT solver: an opaque collaborator that reads the CNF and  *)
(* answers UNSAT, or SAT with a satisfying assignment.  Which satisfying   *)
(* assignment it returns is its own choice, so the model lets it return    *)
(* any of them.  Models(nv, cls) is the set of all satisfying assignments  *)
(* over the variables 1..nv, each given as its set of true ids.            *)

Abs(i) == IF i < 0 THEN -i ELSE i

ClauseHolds(c, asg) ==
    \E i \in 1..Len(c) : IF c[i] > 0 THEN c[i] \in asg ELSE (-c[i]) \notin asg

Satisfies(asg, cls) == \A i \in 1..Len(cls) : ClauseHolds(cls[i], asg)

MaxVar(c) == IF c = <<>> THEN 0
             ELSE CHOOSE m \in {Abs(c[i]) : i \in 1..Len(c)} :
                    \A i \in 1..Len(c) : Abs(c[i]) <= m

\* a literal may name a variable beyond the header's count; the solver then
\* works over the variables it has seen
SolverVars(nv, cls) ==
    LET ms == {MaxVar(cls[i]) : i \in 1..Len(cls)} \cup {nv}
    IN  CHOOSE m \in ms : \A x \in ms : x <= m

\* the clauses decided once variable v is assigned
ClausesByMax(nv, cls) ==
    [v \in 0..nv |-> {cls[i] : i \in {i \in 1..Len(cls) : MaxVar(cls[i]) = v}}]

RECURSIVE Search(_, _, _, _)
Search(v, nv, asg, byMax) ==
    IF \E c \in byMax[v - 1] : ~ClauseHolds(c, asg) THEN {}
    ELSE IF v > nv THEN {asg}
    ELSE Search(v + 1, nv, asg \cup {v}, byMax) \cup Search(v + 1, nv, asg, byMax)

\* (the bound variables n and byMax hold values computed once)
Models(nv, cls) ==
    UNION { UNION { Search(1, n, {}, byMax) : byMax \in {ClausesByMax(n, cls)} } :
            n \in {SolverVars(nv, cls)} }

----------------------------------------------------------------------------
(* Problem descriptions *)

Cells(N, M) == (0..(N - 1)) \X (0..(M - 1))

\* the sequences of n distinct cells of cs
RECURSIVE DistinctSeqs(_, _)
DistinctSeqs(cs, n) ==
    IF n = 0 THEN { <<>> }
    ELSE UNION { { Append(q, c) : c \in cs \ Range(q) } : q \in DistinctSeqs(cs, n - 1) }

\* lines_spec of K lines whose endpoints are drawn from the cells cs, no cell
\* being an endpoint twice (format_checker.py:122-128)
LineSpecs(cs, K) ==
    { [k1 \in 1..K |-> <<q[2 * k1 - 1], q[2 * k1]>>] : q \in DistinctSeqs(cs, 2 * K) }

\* the checks parse_city of format_checker.py makes on the values of a
\* description
ValidProblem(p) ==
    /\ p.mode \in {1, 2}
    /\ p.N > 0 /\ p.M > 0 /\ p.K >= 0 /\ p.J >= 0 /\ p.P >= 0
    /\ Len(p.lines_spec) = p.K
    /\ \A k \in PyRange(p.K) :
          InGrid(p.N, p.M, LineStart(p, k)) /\ InGrid(p.N, p.M, LineEnd(p, k))
    /\ \A i \in 1..Len(p.popular) : InGrid(p.N, p.M, p.popular[i])
    /\ \A k1, k2 \in PyRange(p.K) :
          /\ LineStart(p, k1) # LineEnd(p, k2)
          /\ (k1 # k2 => LineStart(p, k1) # LineStart(p, k2) /\ LineEnd(p, k1) # LineEnd(p, k2))

Problem(md, N, M, K, J, ls, pop) ==
    [mode |-> md, N |-> N, M |-> M, K |-> K, J |-> J, P |-> Len(pop),
     lines_spec |-> ls, popular |-> pop]

\* the popular lists of a description: none in scenario 1, up to MaxP cells
\* of the grid in scenario 2
PopularLists(md, N, M) ==
    IF md = 1 THEN { <<>> } ELSE UNION { [1..P -> Cells(N, M)] : P \in 0..MaxP }

\* the valid descriptions on an N x M grid with K lines and turn budget J
ValidOn(N, M, K, J) ==
    { p \in UNION { { Problem(md, N, M, K, J, ls, pop) :
                        ls \in LineSpecs(Cells(N, M), K), pop \in PopularLists(md, N, M) } :
                    md \in {1, 2} } :
        ValidProblem(p) }

GridSizes == { g \in (1..MaxN) \X (1..MaxM) : g[1] * g[2] <= MaxCells }

SmallProblems ==
    UNION { ValidOn(g[1], g[2], kj[1], kj[2]) :
            g \in GridSizes, kj \in (0..MaxK) \X (0..MaxJ) }

\* The smallest grid on which a line can close a loop beside its path is
\* 3 x 2 (a 2 x 2 block of four turns next to a two-cell path); one line,
\* scenario 2, a budget of four turns and one popular cell.
LoopProblems ==
    { p \in ValidOn(3, 2, 1, 4) : p.mode = 2 /\ p.P = 1 }

\* Malformed descriptions: a valid one with a single defect.  <<p.N, 0>> is a
\* cell just outside the grid.
Defects(p) ==
    (IF p.P >= 1
     THEN { [p EXCEPT !.popular[1] = <<p.N, 0>>] } ELSE {})
    \cup (IF p.K >= 1
         THEN { [p EXCEPT !.lines_spec[1][1] = <<p.N, 0>>],
                [p EXCEPT !.lines_spec[1][2] = <<p.N, 0>>],
                [p EXCEPT !.lines_spec[1][2] = p.lines_spec[1][1]] }
         ELSE {})
    \cup (IF p.K >= 2
         THEN { [p EXCEPT !.lines_spec[2][1] = p.lines_spec[1][1]] } ELSE {})
    \cup { [p EXCEPT !.J = -1] }
    \cup (IF p.K = 0 THEN { [p EXCEPT !.K = -1] } ELSE {})
    \cup (IF p.mode = 2 /\ p.P = 0 THEN { [p EXCEPT !.P = -1] } ELSE {})

MalformedProblems == UNION { Defects(p) : p \in {q \in SmallProblems : q.J = 0} }

Problems == SmallProblems \cup LoopProblems \cup MalformedProblems

----------------------------------------------------------------------------
(* decode.py *)

\* decode.py:46-63: the true ids are kept as str(val); E_true is the
\* (k, x, y, D) of those the map knows and whose name starts with "E_"
E_true_of(ids, id2v) ==
    { <<nm[2], nm[3], nm[4], nm[5]>> :
        nm \in { n \in { id2v[s] : s \in { str(v) : v \in ids } \cap DOMAIN id2v } :
                 n[1] = "E" } }

\* build_adjacency_list_for_line: the entries ((nx, ny), D) of cell c.  The
\* order of the entries in the list is the order in which the set E_true is
\* iterated, which the runtime chooses.
adjacency_entries(k, E_true, c) ==
    { <<Step(c, e[4]), e[4]>> : e \in { e \in E_true : e[1] = k /\ <<e[2], e[3]>> = c } }

RECURSIVE SeqPerms(_)
SeqPerms(S) ==
    IF S = {} THEN { <<>> }
    ELSE UNION { { <<x>> \o q : q \in SeqPerms(S \ {x}) } : x \in S }

\* The lists adjacency[c] can be, as far as the search can tell: the entries
\* whose cell is already visited are skipped by the loop wherever they stand,
\* so they are put first, in one order; the others come in any order.
neighbor_orders(entries, visited) ==
    LET seen == { e \in entries : e[1] \in visited }
        first == CHOOSE q \in SeqPerms(seen) : TRUE
    IN  { first \o q : q \in SeqPerms(entries \ seen) }

NotFound == [found |-> FALSE, path |-> <<>>]
Found(path) == [found |-> TRUE, path |-> path]

\* the loop with new_path = [direction]
RECURSIVE explore_neighbors_drops_path(_, _, _, _)
explore_neighbors_drops_path(neighbors, path_so_far, queue, visited) ==
    IF neighbors = <<>> THEN [queue |-> queue, visited |-> visited]
    ELSE LET next_pos == Head(neighbors)[1]
             direction == Head(neighbors)[2]
         IN  IF next_pos \notin visited
             THEN explore_neighbors_drops_path(Tail(neighbors), path_so_far,
                      Append(queue, [pos |-> next_pos, path |-> <<direction>>]),
                      visited \cup {next_pos})
             ELSE explore_neighbors_drops_path(Tail(neighbors), path_so_far, queue, visited)

\* the loop without visited.add(next_pos)
RECURSIVE explore_neighbors_never_marks(_, _, _, _)
explore_neighbors_never_marks(neighbors, path_so_far, queue, visited) ==
    IF neighbors = <<>> THEN [queue |-> queue, visited |-> visited]
    ELSE LET next_pos == Head(neighbors)[1]
             direction == Head(neighbors)[2]
         IN  IF next_pos \notin visited
             THEN explore_neighbors_never_marks(Tail(neighbors), path_so_far,
                      Append(queue, [pos |-> next_pos, path |-> Append(path_so_far, direction)]),
                      visited)
             ELSE explore_neighbors_never_marks(Tail(neighbors), path_so_far, queue, visited)

\* decode.py:91-96, the loop over the neighbors of the current node: the
\* queue and the visited set after it
RECURSIVE explore_neighbors(_, _, _, _)
explore_neighbors(neighbors, path_so_far, queue, visited) ==
    IF neighbors = <<>> THEN [queue |-> queue, visited |-> visited]
    ELSE LET next_pos == Head(neighbors)[1]
             direction == Head(neighbors)[2]
         IN  IF next_pos \notin visited
             THEN explore_neighbors(Tail(neighbors), path_so_far,
                      Append(queue, [pos |-> next_pos, path |-> Append(path_so_far, direction)]),
                      visited \cup {next_pos})
             ELSE explore_neighbors(Tail(neighbors), path_so_far, queue, visited)

\* decode.py:82-99, the while loop: the set of values it can return
RECURSIVE bfs_loop(_, _, _, _, _)
bfs_loop(k, E_true, end, queue, visited) ==
    IF queue = <<>> THEN { NotFound }
    ELSE LET cur == Head(queue)
         IN  IF cur.pos = end THEN { Found(cur.path) }
             ELSE UNION { UNION { bfs_loop(k, E_true, end, st.queue, st.visited) :
                                  st \in { explore_neighbors(nb, cur.path, Tail(queue), visited) } } :
                          nb \in neighbor_orders(adjacency_entries(k, E_true, cur.pos), visited) }

perform_bfs_search(k, E_true, start, end) ==
    bfs_loop(k, E_true, end, << [pos |-> start, path |-> <<>>] >>, {start})

find_path_bfs(k, start, end, E_true) == perform_bfs_search(k, E_true, start, end)

\* the main loop going on to the next line when a line has no path
RECURSIVE decode_loop_skips(_, _, _, _, _)
decode_loop_skips(k, K, lines, E_true, output_lines) ==
    IF k >= K THEN { output_lines }
    ELSE UNION { IF ~r.found THEN decode_loop_skips(k + 1, K, lines, E_true, output_lines)
                 ELSE decode_loop_skips(k + 1, K, lines, E_true,
                                        Append(output_lines, r.path \o <<"0">>)) :
                 r \in find_path_bfs(k, lines[k + 1][1], lines[k + 1][2], E_true) }

\* decode.py:125-146: the contents the main loop can write to the metromap
RECURSIVE decode_loop(_, _, _, _, _)
decode_loop(k, K, lines, E_true, output_lines) ==
    IF k >= K THEN { output_lines }
    ELSE UNION { IF ~r.found THEN { << <<"0">> >> }
                 ELSE decode_loop(k + 1, K, lines, E_true,
                                  Append(output_lines, r.path \o <<"0">>)) :
                 r \in find_path_bfs(k, lines[k + 1][1], lines[k + 1][2], E_true) }

\* decode.py as a whole: the metromaps it can write
decode(status, ids, id2v, K, lines) ==
    IF status = "UNSAT" THEN { << <<"0">> >> }
    ELSE decode_loop(0, K, lines, E_true_of(ids, id2v), <<>>)

----------------------------------------------------------------------------
(* format_checker.py *)

\* parse_metromap: a single line "0" reads as UNSAT
metromap_state(lines) == IF lines = << <<"0">> >> THEN "UNSAT" ELSE "SAT"

\* parse_metromap: the moves of each line, its trailing "0" dropped
metro_moves_of(lines) == [i \in 1..Len(lines) |-> SubSeq(lines[i], 1, Len(lines[i]) - 1)]

dirvec == [d \in {"L", "R", "U", "D"} |->
            CASE d = "L" -> <<-1, 0>>
              [] d = "R" -> <<1, 0>>
              [] d = "U" -> <<0, -1>>
              [] d = "D" -> <<0, 1>>]

\* format_checker.py:206-222, the loop over the moves of one line from step i on
RECURSIVE walk_moves(_, _, _, _)
walk_moves(N, M, moves, w) ==
    IF moves = <<>> THEN w
    ELSE LET mv == Head(moves)
         IN  IF mv \notin DOMAIN dirvec THEN [w EXCEPT !.error = "Invalid token"]
             ELSE LET pos == <<w.pos[1] + dirvec[mv][1], w.pos[2] + dirvec[mv][2]>>
                  IN  IF ~InGrid(N, M, pos)
                      THEN [w EXCEPT !.pos = pos, !.error = "Out of bounds"]
                      ELSE walk_moves(N, M, Tail(moves),
                              [w EXCEPT !.pos = pos,
                                        !.cells = Append(@, pos),
                                        !.prev = mv,
                                        !.turns = IF w.prev # "" /\ mv # w.prev
                                                  THEN @ + 1 ELSE @])

\* format_checker.py:197-227: cells, turns and error of line k
walk_line(p, k, moves) ==
    LET w == walk_moves(p.N, p.M, moves,
                [pos |-> LineStart(p, k), cells |-> <<LineStart(p, k)>>,
                 prev |-> "", turns |-> 0, error |-> ""])
    IN  IF w.error = "" /\ w.pos # LineEnd(p, k)
        THEN [w EXCEPT !.error = "Final pos != end"] ELSE w

\* analyze_constraints with the turn check left out of the verdict
analyze_constraints_ignores_turns(p, metro_moves) ==
    IF Len(metro_moves) # p.K
    THEN [c1 |-> FALSE, c2 |-> FALSE, c3 |-> FALSE, c4 |-> (p.mode # 2),
          final_valid |-> FALSE]
    ELSE LET per == [k1 \in 1..p.K |-> walk_line(p, k1 - 1, metro_moves[k1])]
             owners(c) == { v \in UNION { {k1} \X (1..Len(per[k1].cells)) : k1 \in 1..p.K } :
                              per[v[1]].cells[v[2]] = c }
             walked == UNION { Range(per[k1].cells) : k1 \in 1..p.K }
             c1 == \A c \in walked : Cardinality(owners(c)) <= 1
             c2 == \A k1 \in 1..p.K : per[k1].error = ""
             c3 == \A k1 \in 1..p.K : per[k1].turns <= p.J
             c4 == IF p.mode = 2
                   THEN \A i \in 1..Len(p.popular) : owners(p.popular[i]) # {}
                   ELSE TRUE
         IN  [c1 |-> c1, c2 |-> c2, c3 |-> c3, c4 |-> c4,
              final_valid |-> c1 /\ c2 /\ c4]

\* analyze_constraints: the four verdicts and final_valid
analyze_constraints(p, metro_moves) ==
    IF Len(metro_moves) # p.K
    THEN [c1 |-> FALSE, c2 |-> FALSE, c3 |-> FALSE, c4 |-> (p.mode # 2),
          final_valid |-> FALSE]
    ELSE LET per == [k1 \in 1..p.K |-> walk_line(p, k1 - 1, metro_moves[k1])]
             \* cell_owners[c] gets one entry per visit: line k1, step i
             owners(c) == { v \in UNION { {k1} \X (1..Len(per[k1].cells)) : k1 \in 1..p.K } :
                              per[v[1]].cells[v[2]] = c }
             walked == UNION { Range(per[k1].cells) : k1 \in 1..p.K }
             c1 == \A c \in walked : Cardinality(owners(c)) <= 1
             c2 == \A k1 \in 1..p.K : per[k1].error = ""
             c3 == \A k1 \in 1..p.K : per[k1].turns <= p.J
             c4 == IF p.mode = 2
                   THEN \A i \in 1..Len(p.popular) : owners(p.popular[i]) # {}
                   ELSE TRUE
         IN  [c1 |-> c1, c2 |-> c2, c3 |-> c3, c4 |-> c4,
              final_valid |-> c1 /\ c2 /\ c3 /\ c4]

----------------------------------------------------------------------------
(* The pipeline *)

NoSatFile == [written |-> FALSE, num_vars |-> 0, num_clauses |-> 0]
NoOutmap == [written |-> FALSE, lines |-> <<>>]

Init ==
    /\ pc = "start"
    /\ prob \in Problems
    /\ var_to_id = EmptyFn
    /\ id_to_var = EmptyFn
    /\ next_var = 1
    /\ clauses = <<>>
    /\ satfile = NoSatFile
    /\ sat_status = "none"
    /\ true_vars_ids = {}
    /\ outmap = NoOutmap
    /\ exit_status = 0
    /\ call = NoCall

\* encode.py runs on the description: it ends with the CNF and the variable
\* map written (encode.py:348-358), or an exception stops it before that
Encode ==
    /\ pc = "start"
    /\ \E ctx \in { encode(prob) } :
          /\ var_to_id' = ctx.var_to_id
          /\ id_to_var' = ctx.id_to_var
          /\ next_var' = ctx.next_var
          /\ clauses' = ctx.clauses
          /\ IF ctx.err = ""
             THEN /\ satfile' = [written |-> TRUE, num_vars |-> ctx.next_var - 1,
                                 num_clauses |-> Len(ctx.clauses)]
                  /\ exit_status' = 0
                  /\ pc' = "encoded"
             ELSE /\ satfile' = NoSatFile
                  /\ exit_status' = 1
                  /\ pc' = "crashed"
    /\ UNCHANGED <<prob, sat_status, true_vars_ids, outmap, call>>

\* the solver finds the CNF satisfiable and prints one of its models
SolverSat ==
    /\ pc = "encoded"
    /\ \E a \in Models(satfile.num_vars, clauses) :
          /\ sat_status' = "SAT"
          /\ true_vars_ids' = a
    /\ pc' = "solved"
    /\ UNCHANGED <<prob, var_to_id, id_to_var, next_var, clauses, satfile, outmap,
                   exit_status, call>>

\* the solver finds the CNF unsatisfiable
SolverUnsat ==
    /\ pc = "encoded"
    /\ Models(satfile.num_vars, clauses) = {}
    /\ sat_status' = "UNSAT"
    /\ true_vars_ids' = {}
    /\ pc' = "solved"
    /\ UNCHANGED <<prob, var_to_id, id_to_var, next_var, clauses, satfile, outmap,
                   exit_status, call>>

\* decode.py runs on the solver's output and the variable map
Decode ==
    /\ pc = "solved"
    /\ \E out \in decode(sat_status, true_vars_ids, id_to_var, prob.K, prob.lines_spec) :
          outmap' = [written |-> TRUE, lines |-> out]
    /\ exit_status' = 0
    /\ pc' = "decoded"
    /\ UNCHANGED <<prob, var_to_id, id_to_var, next_var, clauses, satfile, sat_status,
                   true_vars_ids, call>>

Next == Encode \/ SolverSat \/ SolverUnsat \/ Decode

Spec == Init /\ [][Next]_vars

----------------------------------------------------------------------------
(* Claims *)

\* the verifier's report on the metromap the decoder wrote
Report == analyze_constraints(prob, metro_moves_of(outmap.lines))

\* the solver's answer is a model of the emitted clauses
AnswerIsModel == sat_status = "SAT" /\ Satisfies(true_vars_ids, clauses)

\* C1: for every valid problem description and every assignment that
\* satisfies all emitted clauses, the decoder's output passes the four
\* verifier checks (disjoint cells, start-to-end walks in the grid, at most J
\* turns, every popular cell on some decoded path).
C1_DecodedPassesVerifier ==
    (pc = "decoded" /\ ValidProblem(prob) /\ AnswerIsModel)
        => (Report.c1 /\ Report.c2 /\ Report.c3 /\ Report.c4)

----------------------------------------------------------------------------
(* Arrangements: what the problem asks for, stated without the encoding *)

Adjacent(c, d) == \E D \in DOMAIN DIRS : Step(c, D) = d

\* the direction of the step from c to the adjacent cell d
DirOf(c, d) == CHOOSE D \in DOMAIN DIRS : Step(c, D) = d

\* the simple paths of the N x M grid that extend the cell sequence `path` to e
RECURSIVE PathsFrom(_, _, _, _)
PathsFrom(N, M, path, e) ==
    LET last == path[Len(path)]
    IN  IF last = e THEN { path }
        ELSE UNION { PathsFrom(N, M, Append(path, Step(last, D)), e) :
                     D \in { D \in DOMAIN DIRS :
                               /\ InGrid(N, M, Step(last, D))
                               /\ Step(last, D) \notin Range(path) } }

SimplePaths(N, M, s, e) == PathsFrom(N, M, <<s>>, e)

PathDirs(path) == [i \in 1..(Len(path) - 1) |-> DirOf(path[i], path[i + 1])]

PathTurns(path) ==
    Cardinality({ i \in 1..(Len(path) - 2) : PathDirs(path)[i] # PathDirs(path)[i + 1] })

\* the directed steps of a path, in both directions
PathEdges(path) ==
    UNION { { <<path[i][1], path[i][2], DirOf(path[i], path[i + 1])>>,
              <<path[i + 1][1], path[i + 1][2], DirOf(path[i + 1], path[i])>> } :
            i \in 1..(Len(path) - 1) }

\* one simple start-to-end path per line
PathTuples(p) ==
    { t \in [1..p.K -> UNION { SimplePaths(p.N, p.M, LineStart(p, k), LineEnd(p, k)) :
                               k \in PyRange(p.K) }] :
        \A k1 \in 1..p.K : t[k1][1] = LineStart(p, k1 - 1)
                           /\ t[k1][Len(t[k1])] = LineEnd(p, k1 - 1) }

\* K vertex-disjoint simple paths with at most J turns each that cover every
\* popular cell
Arrangements(p) ==
    { t \in PathTuples(p) :
        /\ \A k1, k2 \in 1..p.K : k1 # k2 => Range(t[k1]) \cap Range(t[k2]) = {}
        /\ \A k1 \in 1..p.K : PathTurns(t[k1]) <= p.J
        /\ p.mode = 2 =>
              \A i \in 1..Len(p.popular) : \E k1 \in 1..p.K : p.popular[i] \in Range(t[k1]) }

\* the cells whose occupied variable of line k is true in the assignment
OccupiedCells(v2i, p, k, asg) ==
    { c \in Cells(p.N, p.M) : v2i[LName(k, c)] \in asg }

\* the (x, y, D) whose edge variable of line k is true in the assignment
TrueEdges(v2i, p, k, asg) ==
    { e \in Cells(p.N, p.M) \X DOMAIN DIRS :
        EName(k, e[1], e[2]) \in DOMAIN v2i /\ v2i[EName(k, e[1], e[2])] \in asg }

\* the assignment is true on exactly the cells and steps of the arrangement
Induces(v2i, p, t, asg) ==
    \A k1 \in 1..p.K :
        /\ OccupiedCells(v2i, p, k1 - 1, asg) = Range(t[k1])
        /\ { <<e[1][1], e[1][2], e[2]>> : e \in TrueEdges(v2i, p, k1 - 1, asg) }
              = PathEdges(t[k1])

\* C2: completeness of the encoding.  For every valid description and every
\* arrangement (K vertex-disjoint simple start-to-end paths, at most J turns
\* each, every popular cell covered) some model of the emitted clauses has
\* occupied true exactly on the path cells and edge true exactly on the path
\* steps in both directions; so a feasible instance is never unsatisfiable.
C2_Completeness ==
    (pc = "encoded" /\ ValidProblem(prob)) =>
        \A t \in Arrangements(prob) :
            \E asg \in Models(satfile.num_vars, clauses) :
                Induces(var_to_id, prob, t, asg)

\* a problem whose counter is active (more turn variables than J) and that
\* has an arrangement using the whole turn budget
C2_Witness ==
    /\ pc = "encoded" /\ ValidProblem(prob) /\ prob.K >= 1 /\ prob.J > 0
    /\ CounterName(<<"s_k", 0>>, 0, 0) \in DOMAIN var_to_id
    /\ \E t \in Arrangements(prob) : \E k1 \in 1..prob.K : PathTurns(t[k1]) = prob.J


----------------------------------------------------------------------------
(* The decoder on any solver output *)

\* the largest number of true edge variables in an arbitrary solver output
MaxTrueEdges == 3

\* the descriptions the decoder is run on
DecodeProblems == { p \in SmallProblems : p.mode = 1 /\ p.J = 0 }

InitDecode ==
    /\ pc = "start"
    /\ prob \in DecodeProblems
    /\ var_to_id = EmptyFn
    /\ id_to_var = EmptyFn
    /\ next_var = 1
    /\ clauses = <<>>
    /\ satfile = NoSatFile
    /\ sat_status = "none"
    /\ true_vars_ids = {}
    /\ outmap = NoOutmap
    /\ exit_status = 0
    /\ call = NoCall

\* the ids of the variable map whose name is an edge variable, and the others
EdgeIds == { var_to_id[n] : n \in { n \in DOMAIN var_to_id : n[1] = "E" } }
OtherIds == (1..(next_var - 1)) \ EdgeIds

\* the ids of the edge variables of one path per line, both directions
PathEdgeIds(v2i, p, t) ==
    UNION { { v2i[EName(k1 - 1, <<e[1], e[2]>>, e[3])] : e \in PathEdges(t[k1]) } :
            k1 \in 1..p.K }

\* decode.py:46-54 reads whatever positive integers follow the first line of
\* the solver's output: here any few edge ids, or the edge ids of one simple
\* path per line, together with no other id, every other id of the map, or an
\* id the map does not know.
SolverAnswers ==
    /\ pc = "encoded"
    /\ \E es \in { S \in SUBSET EdgeIds : Cardinality(S) <= MaxTrueEdges }
                  \cup { PathEdgeIds(var_to_id, prob, t) : t \in PathTuples(prob) } :
          \E noise \in { {}, OtherIds, {next_var} } :
              true_vars_ids' = es \cup noise
    /\ sat_status' = "SAT"
    /\ pc' = "solved"
    /\ UNCHANGED <<prob, var_to_id, id_to_var, next_var, clauses, satfile, outmap,
                   exit_status, call>>

\* decode.py:36-40 sees a first line UNSAT
SolverReportsUnsat ==
    /\ pc = "encoded"
    /\ sat_status' = "UNSAT"
    /\ true_vars_ids' = {}
    /\ pc' = "solved"
    /\ UNCHANGED <<prob, var_to_id, id_to_var, next_var, clauses, satfile, outmap,
                   exit_status, call>>

NextDecode == Encode \/ SolverAnswers \/ SolverReportsUnsat \/ Decode

SpecDecode == InitDecode /\ [][NextDecode]_vars

\* the true edge variables the decoder works on
E_true == E_true_of(true_vars_ids, id_to_var)

\* the true edge variables are the steps, in both directions, of the paths t
EdgesOfPaths(t) ==
    E_true = UNION { { <<k1 - 1, e[1], e[2], e[3]>> : e \in PathEdges(t[k1]) } :
                     k1 \in 1..prob.K }

\* the metromap that spells the paths t
PathOutput(t) == [k1 \in 1..Len(t) |-> PathDirs(t[k1]) \o <<"0">>]

\* C3: when the true edge variables are, for every line, the reciprocal edge
\* pairs of one simple start-to-end path, the decoder writes exactly the
\* direction sequence of that path for each line, whatever the order in which
\* the true edge variables are enumerated to build the adjacency lists.
C3_DecoderReconstructsPath ==
    (pc \in {"solved", "decoded"} /\ sat_status = "SAT") =>
        \A t \in PathTuples(prob) :
            EdgesOfPaths(t) =>
                /\ decode(sat_status, true_vars_ids, id_to_var, prob.K, prob.lines_spec)
                      = { PathOutput(t) }
                /\ pc = "decoded" => outmap.lines = PathOutput(t)

\* decoded from the edges of a path that turns, among other true variables
C3_Witness ==
    /\ pc = "decoded" /\ sat_status = "SAT" /\ prob.K >= 1
    /\ OtherIds \subseteq true_vars_ids
    /\ \E t \in PathTuples(prob) : EdgesOfPaths(t) /\ PathTurns(t[1]) >= 1

\* some line has no start-to-end path over its true edge variables
SomeLineHasNoPath ==
    \E k \in PyRange(prob.K) :
        NotFound \in find_path_bfs(k, LineStart(prob, k), LineEnd(prob, k), E_true)

\* what the decoder leaves behind: the metromap and the exit status
DecoderResult == [lines |-> outmap.lines, status |-> exit_status]

\* decode.py:36-40, the result on a solver-reported UNSAT
UnsatResult == [lines |-> << <<"0">> >>, status |-> 0]

\* C4: when the solver reports success but some line has no start-to-end
\* path over its true edge variables, the decoder's result differs from the
\* result it produces for a solver-reported UNSAT.
C4_InconsistencyDistinct ==
    (pc = "decoded" /\ sat_status = "SAT" /\ SomeLineHasNoPath)
        => DecoderResult # UnsatResult

Tokens == {"L", "R", "U", "D"}

\* the moves lead from cell c to cell e over true edge variables of line k
RECURSIVE FollowsEdges(_, _, _, _)
FollowsEdges(k, c, e, moves) ==
    IF moves = <<>> THEN c = e
    ELSE /\ Head(moves) \in Tokens
         /\ <<k, c[1], c[2], Head(moves)>> \in E_true
         /\ FollowsEdges(k, Step(c, Head(moves)), e, Tail(moves))

\* a line of the metromap for line k: its direction tokens, then "0"
IsLineOf(k, l) ==
    /\ Len(l) >= 1
    /\ l[Len(l)] = "0"
    /\ FollowsEdges(k, LineStart(prob, k), LineEnd(prob, k), SubSeq(l, 1, Len(l) - 1))

\* C8: with K >= 1 lines the decoder's output is, for every solver result,
\* either the single line "0" or exactly K lines, the line of index k being
\* direction tokens of line k over {L,R,U,D} followed by "0"; fewer than K
\* sequences are never written, and a solver-reported UNSAT gives the single
\* marker.
C8_OutputShape ==
    (pc = "decoded" /\ prob.K >= 1) =>
        /\ outmap.written
        /\ \/ outmap.lines = << <<"0">> >>
           \/ /\ Len(outmap.lines) = prob.K
              /\ \A k1 \in 1..prob.K : IsLineOf(k1 - 1, outmap.lines[k1])
        /\ sat_status = "UNSAT" => outmap.lines = << <<"0">> >>

\* two lines, the first has a path over its true edges and the second has not
C8_Witness ==
    /\ pc = "decoded" /\ sat_status = "SAT" /\ prob.K = 2
    /\ NotFound \notin find_path_bfs(0, LineStart(prob, 0), LineEnd(prob, 0), E_true)
    /\ NotFound \in find_path_bfs(1, LineStart(prob, 1), LineEnd(prob, 1), E_true)



----------------------------------------------------------------------------
(* Claims on the encoder within the pipeline *)

\* C5: on a malformed description (a start, end or popular cell outside the
\* grid, duplicate start/end cells, a negative count) the encoder stops with
\* an error before any variable is allocated and emits no CNF and no clause.
C5_MalformedFailsFast ==
    (pc # "start" /\ ~ValidProblem(prob)) =>
        /\ pc = "crashed"
        /\ next_var = 1 /\ var_to_id = EmptyFn /\ id_to_var = EmptyFn
        /\ clauses = <<>>
        /\ ~satfile.written

\* the popular cell has an occupied variable for some line
HasCandidate(c) == \E k \in PyRange(prob.K) : LName(k, c) \in DOMAIN var_to_id

\* some line's occupied variable at the cell is true in the assignment
Occupied(c, asg) ==
    \E k \in PyRange(prob.K) :
        LName(k, c) \in DOMAIN var_to_id /\ var_to_id[LName(k, c)] \in asg

PopularCells == IF prob.mode = 2 THEN Range(prob.popular) ELSE {}

\* C6: in scenario 2 the popular-coverage requirement is never dropped: every
\* assignment that satisfies the emitted CNF has each popular cell occupied
\* by at least one line, and when some popular cell has no candidate
\* occupied variable (cell outside the grid, or K = 0) the CNF holds the unit
\* clauses [1] and [-1] and has no satisfying assignment.
C6_PopularNeverDropped ==
    /\ (pc \in {"solved", "decoded"} /\ AnswerIsModel) =>
          \A c \in PopularCells : Occupied(c, true_vars_ids)
    /\ (pc = "encoded" /\ \E c \in PopularCells : ~HasCandidate(c)) =>
          /\ <<1>> \in Range(clauses) /\ <<-1>> \in Range(clauses)
          /\ Models(satfile.num_vars, clauses) = {}
    /\ (pc \in {"solved", "decoded"} /\ \E c \in PopularCells : ~HasCandidate(c)) =>
          sat_status = "UNSAT"

\* lines exist, a popular cell lies outside the grid, and the solver has
\* answered on the emitted CNF
C6_Witness ==
    /\ pc = "solved" /\ sat_status = "UNSAT" /\ prob.mode = 2 /\ prob.K >= 1
    /\ \E c \in PopularCells : ~HasCandidate(c)
    /\ <<1>> \in Range(clauses) /\ <<-1>> \in Range(clauses)

\* the description N=3, M=1, K=1, J=0 with the line (0,0) -> (2,0)
IsStraightCase ==
    /\ ValidProblem(prob)
    /\ prob.N = 3 /\ prob.M = 1 /\ prob.K = 1 /\ prob.J = 0
    /\ prob.lines_spec = << << <<0, 0>>, <<2, 0>> >> >>

\* the ids of the turn variables
TurnIds == { var_to_id[n] : n \in { n \in DOMAIN var_to_id : n[1] = "T" } }

\* C9: for N=3, M=1, K=1, J=0 and the line (0,0) -> (2,0) the emitted CNF is
\* satisfiable, every satisfying assignment has exactly the edge variables of
\* the straight path (0,0)-(1,0)-(2,0) true, in both directions, and no turn
\* variable true, and decoding it gives the single line "R R 0".
C9_StraightPath ==
    IsStraightCase =>
        /\ pc # "crashed"
        /\ pc = "encoded" => Models(satfile.num_vars, clauses) # {}
        /\ pc \in {"solved", "decoded"} =>
              /\ AnswerIsModel
              /\ E_true = { <<0, 0, 0, "R">>, <<0, 1, 0, "L">>,
                            <<0, 1, 0, "R">>, <<0, 2, 0, "L">> }
              /\ TurnIds \cap true_vars_ids = {}
        /\ pc = "decoded" => outmap.lines = << <<"R", "R", "0">> >>

\* the straight case, solved and decoded
C9_Witness ==
    IsStraightCase /\ pc = "decoded" /\ sat_status = "SAT" /\ TurnIds # {}



----------------------------------------------------------------------------
(* add_at_most_k_constraint on its own *)

\* the largest number of input variables and the largest bound k
MaxInputs == 5
MaxBound == 3

\* The names allocated before the call: an occupied and a turn variable per
\* cell of a row, as encode.py:165-172 allocates them; the turn variables are
\* the inputs of the counter.
CounterSetupNames(n) ==
    Flatten([i \in 1..n |-> <<LName(0, <<i - 1, 0>>), TName(0, <<i - 1, 0>>)>>])

CounterSetup(n) == new_vars(InitCtx, CounterSetupNames(n))

NoCounterCall(ctx, n, k, truth) ==
    [fn |-> "none",
     variables |-> [i \in 1..n |-> T_vars(ctx, 0, <<i - 1, 0>>)],
     k |-> k,
     truth |-> { T_vars(ctx, 0, <<i - 1, 0>>) : i \in truth },
     next_before |-> ctx.next_var]

\* n inputs, a bound k and the set of inputs that are true
InitCounter ==
    /\ pc = "start"
    /\ prob = Problem(1, 1, 1, 0, 0, <<>>, <<>>)
    /\ \E n \in 0..MaxInputs : \E k \in 0..MaxBound : \E truth \in SUBSET (1..n) :
          \E ctx \in { CounterSetup(n) } :
              /\ var_to_id = ctx.var_to_id
              /\ id_to_var = ctx.id_to_var
              /\ next_var = ctx.next_var
              /\ clauses = ctx.clauses
              /\ call = NoCounterCall(ctx, n, k, truth)
    /\ satfile = NoSatFile
    /\ sat_status = "none"
    /\ true_vars_ids = {}
    /\ outmap = NoOutmap
    /\ exit_status = 0

\* the encoder's tables as a context
CurrentCtx ==
    [var_to_id |-> var_to_id, id_to_var |-> id_to_var, next_var |-> next_var,
     clauses |-> clauses, err |-> ""]

\* add_at_most_k_constraint(variables, k, prefix="s_k0"), as
\* enforce_turn_constraints calls it for line 0
CounterCall ==
    /\ pc = "start"
    /\ \E ctx \in { add_at_most_k_constraint(CurrentCtx, call.variables, call.k, <<"s_k", 0>>) } :
          /\ var_to_id' = ctx.var_to_id
          /\ id_to_var' = ctx.id_to_var
          /\ next_var' = ctx.next_var
          /\ clauses' = ctx.clauses
    /\ call' = [call EXCEPT !.fn = "add_at_most_k_constraint"]
    /\ pc' = "counter_done"
    /\ UNCHANGED <<prob, satfile, sat_status, true_vars_ids, outmap, exit_status>>

NextCounter == CounterCall

SpecCounter == InitCounter /\ [][NextCounter]_vars

\* a clause as its set of literals
Lits(c) == { c[i] : i \in 1..Len(c) }

\* the clause set once literal l is true
Assign(cls, l) == { c \ {-l} : c \in { c \in cls : l \notin c } }

\* satisfiability of a set of clauses, by unit propagation and splitting
RECURSIVE Satisfiable(_)
Satisfiable(cls) ==
    IF cls = {} THEN TRUE
    ELSE IF {} \in cls THEN FALSE
    ELSE \E units \in { { c \in cls : Cardinality(c) = 1 } } :
            IF units # {}
            THEN \E l \in { CHOOSE l \in UNION units : TRUE } : Satisfiable(Assign(cls, l))
            ELSE \E l \in { CHOOSE l \in UNION cls : TRUE } :
                    Satisfiable(Assign(cls, l)) \/ Satisfiable(Assign(cls, -l))

\* the inputs' assignment can be extended to the other variables so that
\* every emitted clause holds
Extendable ==
    Satisfiable({ Lits(c) : c \in Range(clauses) }
                \cup { {v} : v \in call.truth }
                \cup { {-v} : v \in Range(call.variables) \ call.truth })

\* C7: for n input variables and a bound k >= 0, an assignment of the inputs
\* extends to the counter's auxiliary variables so that all clauses emitted
\* by add_at_most_k_constraint hold if and only if at most k inputs are true;
\* with k = 0 every input is forced false and with n <= k nothing is emitted.
C7_AtMostK ==
    pc = "counter_done" =>
        /\ Extendable <=> Cardinality(call.truth) <= call.k
        /\ Len(call.variables) <= call.k =>
              clauses = <<>> /\ next_var = call.next_before

\* more inputs than the bound, a bound of at least 1, and exactly one input
\* too many true
C7_Witness ==
    /\ pc = "counter_done"
    /\ call.k >= 1 /\ Len(call.variables) >= call.k + 2
    /\ Cardinality(call.truth) = call.k + 1
    /\ clauses # <<>>

----------------------------------------------------------------------------
(* new_var on its own *)

\* the largest number of direct new_var calls in a run
MaxCalls == 3

\* the descriptions whose variables are defined
NewVarProblems == { p \in SmallProblems : p.mode = 1 /\ p.J = 0 /\ p.K = 1 }

\* names asked for directly: those of cell (0,0) of line 0 and two of the
\* counter of line 0
NewVarNames ==
    { LName(0, <<0, 0>>), TName(0, <<0, 0>>), SName(0, <<0, 0>>), EName(0, <<0, 0>>, "R"),
      CounterName(<<"s_k", 0>>, 0, 0), CounterName(<<"s_k", 0>>, 0, 1) }

InitNewVar ==
    /\ pc = "start"
    /\ prob \in NewVarProblems
    /\ var_to_id = EmptyFn
    /\ id_to_var = EmptyFn
    /\ next_var = 1
    /\ clauses = <<>>
    /\ satfile = NoSatFile
    /\ sat_status = "none"
    /\ true_vars_ids = {}
    /\ outmap = NoOutmap
    /\ exit_status = 0
    /\ call = [fn |-> "none", name |-> <<>>, ret |-> 0, known |-> FALSE,
               next_before |-> 1, count |-> 0]

\* one call new_var(name)
NewVarCall ==
    /\ call.count < MaxCalls
    /\ \E name \in NewVarNames : \E ctx \in { new_var(CurrentCtx, name) } :
          /\ var_to_id' = ctx.var_to_id
          /\ id_to_var' = ctx.id_to_var
          /\ next_var' = ctx.next_var
          /\ call' = [fn |-> "new_var", name |-> name,
                      ret |-> new_var_ret(CurrentCtx, name),
                      known |-> name \in DOMAIN var_to_id,
                      next_before |-> next_var, count |-> call.count + 1]
    /\ UNCHANGED <<pc, prob, clauses, satfile, sat_status, true_vars_ids, outmap,
                   exit_status>>

\* encode.py:158-181: the variables of the description are defined
DefineVariables ==
    /\ pc = "start"
    /\ \E ctx \in { define_variables(CurrentCtx, prob) } :
          /\ var_to_id' = ctx.var_to_id
          /\ id_to_var' = ctx.id_to_var
          /\ next_var' = ctx.next_var
    /\ call' = [call EXCEPT !.fn = "define_variables", !.next_before = next_var]
    /\ pc' = "defined"
    /\ UNCHANGED <<prob, clauses, satfile, sat_status, true_vars_ids, outmap, exit_status>>

NextNewVar == NewVarCall \/ DefineVariables

SpecNewVar == InitNewVar /\ [][NextNewVar]_vars

\* C10: after any sequence of new_var calls, with fresh or repeated names and
\* the counter's names among them, var_to_id and id_to_var are mutually
\* inverse, no two names share an id, the allocated ids are exactly
\* 1..next_var-1, and a call with a known name returns its existing id and
\* allocates nothing.
C10_NewVarBijection ==
    /\ \A n \in DOMAIN var_to_id :
          str(var_to_id[n]) \in DOMAIN id_to_var /\ id_to_var[str(var_to_id[n])] = n
    /\ \A s \in DOMAIN id_to_var :
          id_to_var[s] \in DOMAIN var_to_id /\ str(var_to_id[id_to_var[s]]) = s
    /\ \A n1, n2 \in DOMAIN var_to_id : var_to_id[n1] = var_to_id[n2] => n1 = n2
    /\ { var_to_id[n] : n \in DOMAIN var_to_id } = 1..(next_var - 1)
    /\ call.fn = "new_var" =>
          /\ call.ret = var_to_id[call.name]
          /\ IF call.known
             THEN call.ret < call.next_before /\ next_var = call.next_before
             ELSE call.ret = call.next_before /\ next_var = call.next_before + 1

\* a known name asked for again once ten or more ids are allocated, and a
\* counter name among the names
C10_Witness ==
    /\ call.fn = "new_var" /\ call.known /\ next_var > 10
    /\ CounterName(<<"s_k", 0>>, 0, 0) \in DOMAIN var_to_id



----------------------------------------------------------------------------
(* The verifier on any metromap *)

\* the largest number of moves of a line of a metromap
MaxMoves == 3

\* parse_city reads the description: besides the checks on the values, the
\* scenario-2 file must have a non-blank line of 2*P tokens after the lines
\* (format_checker.py:103-111), which no file has when P = 0
parse_city_ok(p) == ValidProblem(p) /\ (p.mode = 2 => p.P >= 1)

\* t.upper() on the tokens of the model
upper(t) == IF t = "r" THEN "R" ELSE t

\* parse_metromap on the non-blank lines of the file, each a sequence of
\* one-character tokens
parse_metromap(lines) ==
    IF lines = <<>> THEN [state |-> "error", moves |-> <<>>]
    ELSE IF lines = << <<"0">> >> THEN [state |-> "UNSAT", moves |-> <<>>]
    ELSE IF \E i \in 1..Len(lines) :
                \/ lines[i][Len(lines[i])] # "0"
                \/ \E j \in 1..(Len(lines[i]) - 1) : upper(lines[i][j]) \notin Tokens
         THEN [state |-> "error", moves |-> <<>>]
    ELSE [state |-> "SAT",
          moves |-> [i \in 1..Len(lines) |->
                        [j \in 1..(Len(lines[i]) - 1) |-> upper(lines[i][j])]]]

\* the sequences of at most n directions
MoveSeqs(n) == UNION { [1..m -> Tokens] : m \in 0..n }

\* the lines of a metromap with at most n moves
MapLines(n) == { q \o <<"0">> : q \in MoveSeqs(n) }

\* Metromap files: no line, one line of up to MaxMoves moves, two lines of up
\* to MaxMoves - 1 moves, and lines with a lower-case token, an unknown
\* token or no trailing "0".
MapFiles ==
    { <<>> }
    \cup { <<l>> : l \in MapLines(MaxMoves) }
    \cup { <<l1, l2>> : l1 \in MapLines(MaxMoves - 1), l2 \in MapLines(MaxMoves - 1) }
    \cup { << <<"r", "0">> >>, << <<"X", "0">> >>, << <<"R">> >>, << <<"R", "0">>, <<"0", "R">> >> }

NoReport == [c1 |-> FALSE, c2 |-> FALSE, c3 |-> FALSE, c4 |-> FALSE, final_valid |-> FALSE]

\* the descriptions the verifier is run on
VerifyProblems == { p \in SmallProblems : p.K <= 1 \/ p.J = MaxJ }

InitVerify ==
    /\ pc = "start"
    /\ prob \in VerifyProblems
    /\ var_to_id = EmptyFn
    /\ id_to_var = EmptyFn
    /\ next_var = 1
    /\ clauses = <<>>
    /\ satfile = NoSatFile
    /\ sat_status = "none"
    /\ true_vars_ids = {}
    /\ outmap \in { [written |-> TRUE, lines |-> f] : f \in MapFiles }
    /\ exit_status = 0
    /\ call = [fn |-> "none", state |-> "none", report |-> NoReport, verdict |-> "none"]

\* format_checker.py main on the description and the metromap
Verify ==
    /\ pc = "start"
    /\ \E pm \in { parse_metromap(outmap.lines) } :
          IF ~parse_city_ok(prob) \/ pm.state = "error"
          THEN /\ call' = [fn |-> "format_checker", state |-> "error",
                           report |-> NoReport, verdict |-> "ERROR"]
               /\ exit_status' = 1
          ELSE IF pm.state = "UNSAT"
          THEN /\ call' = [fn |-> "format_checker", state |-> "UNSAT",
                           report |-> NoReport, verdict |-> "UNSAT"]
               /\ exit_status' = 0
          ELSE \E report \in { analyze_constraints(prob, pm.moves) } :
                  /\ call' = [fn |-> "format_checker", state |-> "SAT", report |-> report,
                              verdict |-> IF report.final_valid THEN "VALID" ELSE "INVALID"]
                  /\ exit_status' = IF report.final_valid THEN 0 ELSE 1
    /\ pc' = "verified"
    /\ UNCHANGED <<prob, var_to_id, id_to_var, next_var, clauses, satfile, sat_status,
                   true_vars_ids, outmap>>

NextVerify == Verify

SpecVerify == InitVerify /\ [][NextVerify]_vars

\* the move sequences the metromap claims, read without the verifier
ClaimedMoves ==
    [i \in 1..Len(outmap.lines) |->
        [j \in 1..(Len(outmap.lines[i]) - 1) |-> upper(outmap.lines[i][j])]]

\* the cell reached from c by the moves
RECURSIVE CellAfter(_, _)
CellAfter(c, moves) ==
    IF moves = <<>> THEN c
    ELSE Step(CellAfter(c, SubSeq(moves, 1, Len(moves) - 1)), moves[Len(moves)])

\* the cells line k stands on: its start, then one cell per move
CellsOfLine(k) ==
    [i \in 1..(Len(ClaimedMoves[k + 1]) + 1) |->
        CellAfter(LineStart(prob, k), SubSeq(ClaimedMoves[k + 1], 1, i - 1))]

TurnsOfLine(k) ==
    Cardinality({ i \in 1..(Len(ClaimedMoves[k + 1]) - 1) :
                    ClaimedMoves[k + 1][i] # ClaimedMoves[k + 1][i + 1] })

\* exactly K sequences, no two lines share a cell, every line walks from its
\* start to its end inside the grid with at most J turns, and in scenario 2
\* every popular cell lies on some line
FourChecks ==
    /\ Len(ClaimedMoves) = prob.K
    /\ \A k1, k2 \in PyRange(prob.K) :
          k1 # k2 => Range(CellsOfLine(k1)) \cap Range(CellsOfLine(k2)) = {}
    /\ \A k \in PyRange(prob.K) :
          /\ \A c \in Range(CellsOfLine(k)) : InGrid(prob.N, prob.M, c)
          /\ CellsOfLine(k)[Len(CellsOfLine(k))] = LineEnd(prob, k)
          /\ TurnsOfLine(k) <= prob.J
    /\ prob.mode = 2 =>
          \A i \in 1..Len(prob.popular) :
              \E k \in PyRange(prob.K) : prob.popular[i] \in Range(CellsOfLine(k))

\* no line stands on a cell twice
NoLineRevisits ==
    \A k \in PyRange(prob.K) :
        \A i, j \in 1..Len(CellsOfLine(k)) : CellsOfLine(k)[i] = CellsOfLine(k)[j] => i = j

\* the verifier has given its verdict on a metromap that claims a solution
VerdictGiven == pc = "verified" /\ call.fn = "format_checker" /\ call.state = "SAT"

\* C11 as stated: the verdict is VALID with exit status 0 if and only if the
\* metromap has exactly K sequences, no two lines share a cell, every line
\* walks from its start to its end inside the grid, every line has at most J
\* turns and (scenario 2) every popular cell lies on some line; otherwise it
\* is INVALID with a non-zero status.
C11_VerdictIffFourChecks ==
    VerdictGiven =>
        IF FourChecks THEN call.verdict = "VALID" /\ exit_status = 0
        ELSE call.verdict = "INVALID" /\ exit_status # 0

\* C11, amended: the verdict is VALID with exit status 0 if and only if the
\* four checks hold and, moreover, no line stands on the same cell twice;
\* otherwise it is INVALID with a non-zero status.
C11_VerdictIffSimpleAndFourChecks ==
    VerdictGiven =>
        IF FourChecks /\ NoLineRevisits THEN call.verdict = "VALID" /\ exit_status = 0
        ELSE call.verdict = "INVALID" /\ exit_status # 0

\* a metromap that meets the four checks while a line comes back to a cell
C11_Witness ==
    VerdictGiven /\ FourChecks /\ ~NoLineRevisits /\ call.verdict = "INVALID"



----------------------------------------------------------------------------
(* Claims on the models of the emitted CNF *)

\* the cells joined to the cells `seen` by chains of true edges of line k
RECURSIVE ReachFrom(_, _)
ReachFrom(k, seen) ==
    LET more == seen \cup { Step(<<e[2], e[3]>>, e[4]) :
                              e \in { e \in E_true : e[1] = k /\ <<e[2], e[3]>> \in seen } }
    IN  IF more = seen THEN seen ELSE ReachFrom(k, more)

\* the solver has returned a model of the CNF of a valid description
ModelReturned == pc = "solved" /\ ValidProblem(prob) /\ AnswerIsModel

\* C12: in every assignment satisfying the emitted CNF, every cell occupied
\* by line k is joined to line k's start by a chain of true edge variables of
\* line k, so that the occupied cells of line k are exactly the cells of one
\* simple start-to-end path and no disconnected cycle exists beside it.
C12_OccupiedConnected ==
    ModelReturned =>
        \A k \in PyRange(prob.K) :
            /\ OccupiedCells(var_to_id, prob, k, true_vars_ids)
                  \subseteq ReachFrom(k, {LineStart(prob, k)})
            /\ \E path \in SimplePaths(prob.N, prob.M, LineStart(prob, k), LineEnd(prob, k)) :
                  OccupiedCells(var_to_id, prob, k, true_vars_ids) = Range(path)



\* the directions D whose edge variable of line k at cell c is true
TrueDirs(k, c) == { D \in DOMAIN DIRS : <<k, c[1], c[2], D>> \in E_true }

\* line k's occupied variable at cell c is true
OccupiedBy(k, c) == var_to_id[LName(k, c)] \in true_vars_ids

\* C13: in every assignment satisfying the emitted CNF, for every line k and
\* cell: a start or end of k has exactly 1 true incident edge variable, an
\* occupied non-endpoint cell exactly 2, a cell not occupied by k none; and a
\* non-endpoint cell with fewer than 2 neighbours in the grid is never
\* occupied.
C13_DegreeByCellKind ==
    ModelReturned =>
        \A k \in PyRange(prob.K) : \A c \in Cells(prob.N, prob.M) :
            /\ IsEndpoint(prob, k, c) => Cardinality(TrueDirs(k, c)) = 1
            /\ (~IsEndpoint(prob, k, c) /\ OccupiedBy(k, c)) => Cardinality(TrueDirs(k, c)) = 2
            /\ ~OccupiedBy(k, c) => TrueDirs(k, c) = {}
            /\ (~IsEndpoint(prob, k, c) /\ Len(GridDirs(prob.N, prob.M, c)) < 2)
                  => ~OccupiedBy(k, c)

\* a model with an occupied cell between the endpoints of a line and a cell
\* the line leaves free
C13_Witness ==
    /\ ModelReturned
    /\ \E k \in PyRange(prob.K) : \E c, d \in Cells(prob.N, prob.M) :
          /\ ~IsEndpoint(prob, k, c) /\ OccupiedBy(k, c)
          /\ ~OccupiedBy(k, d)



\* line k's turn variable at the non-endpoint cell c is true
TurnAt(k, c) == var_to_id[TName(k, c)] \in true_vars_ids

\* a horizontal and a vertical edge variable of line k at cell c are true
Perpendicular(k, c) ==
    \E D1 \in {"L", "R"} : \E D2 \in {"U", "D"} : {D1, D2} \subseteq TrueDirs(k, c)

\* two edge variables of line k at cell c on the same axis are true
Collinear(k, c) ==
    {"L", "R"} \subseteq TrueDirs(k, c) \/ {"U", "D"} \subseteq TrueDirs(k, c)

\* C14: in every assignment satisfying the emitted CNF, for every line k and
\* every cell that is not k's start or end, the turn variable is true if and
\* only if the cell is occupied by k and its two true incident edges are
\* perpendicular; it is false when they are collinear and false when the
\* cell is not occupied by k.
C14_TurnIffPerpendicular ==
    ModelReturned =>
        \A k \in PyRange(prob.K) :
            \A c \in { c \in Cells(prob.N, prob.M) : ~IsEndpoint(prob, k, c) } :
                /\ TurnAt(k, c) <=> (OccupiedBy(k, c) /\ Perpendicular(k, c))
                /\ (OccupiedBy(k, c) /\ Collinear(k, c)) => ~TurnAt(k, c)
                /\ ~OccupiedBy(k, c) => ~TurnAt(k, c)

\* a model in which a line turns at one cell and goes straight through another
C14_Witness ==
    /\ ModelReturned
    /\ \E k \in PyRange(prob.K) :
          \E c, d \in { c \in Cells(prob.N, prob.M) : ~IsEndpoint(prob, k, c) } :
              /\ TurnAt(k, c) /\ Perpendicular(k, c)
              /\ OccupiedBy(k, d) /\ Collinear(k, d) /\ ~TurnAt(k, d)



----------------------------------------------------------------------------
(* perform_bfs_search step by step, on any set of true edge variables *)

\* the descriptions whose line 0 is searched: the small ones with one line,
\* and those of the 3 x 2 grid, where a route can be longer than another
\* between cells that are not neighbours, with the start in a corner and the
\* end in the middle column
BfsProblems ==
    { p \in SmallProblems : p.mode = 1 /\ p.J = 0 /\ p.K = 1 }
    \cup { p \in ValidOn(3, 2, 1, 0) :
             /\ p.mode = 1 /\ p.P = 0
             /\ p.lines_spec[1][1] = <<0, 0>> /\ p.lines_spec[1][2][1] = 1 }

NoResult == [done |-> FALSE, found |-> FALSE, path |-> <<>>]

\* the number of entries of the queue q that are at cell c
InQueue(q, c) == Cardinality({ i \in 1..Len(q) : q[i].pos = c })

\* decode.py:75-80: the queue holds the start with an empty path and the
\* start is visited; `enqueued` counts the calls of queue.append per cell
BfsFrame(p, start) ==
    [fn |-> "perform_bfs_search",
     queue |-> << [pos |-> start, path |-> <<>>] >>,
     visited |-> {start},
     enqueued |-> [c \in Cells(p.N, p.M) |-> IF c = start THEN 1 ELSE 0],
     result |-> NoResult]

\* the encoder has run on the description, the solver's true ids are any set
\* of edge ids, and the search for line 0 is about to enter its loop
InitBfs ==
    /\ pc = "bfs"
    /\ prob \in BfsProblems
    /\ \E ctx \in { encode(prob) } :
          /\ var_to_id = ctx.var_to_id
          /\ id_to_var = ctx.id_to_var
          /\ next_var = ctx.next_var
          /\ clauses = ctx.clauses
          /\ satfile = [written |-> TRUE, num_vars |-> ctx.next_var - 1,
                        num_clauses |-> Len(ctx.clauses)]
          /\ true_vars_ids \in
                SUBSET { ctx.var_to_id[n] : n \in { n \in DOMAIN ctx.var_to_id : n[1] = "E" } }
    /\ sat_status = "SAT"
    /\ outmap = NoOutmap
    /\ exit_status = 0
    /\ call = BfsFrame(prob, LineStart(prob, 0))

\* decode.py:82-96: one pass of the while loop
BfsStep ==
    /\ pc = "bfs" /\ call.queue # <<>>
    /\ LET cur == Head(call.queue)
       IN  IF cur.pos = LineEnd(prob, 0)
           THEN /\ call' = [call EXCEPT !.queue = Tail(@),
                                        !.result = [done |-> TRUE, found |-> TRUE,
                                                    path |-> cur.path]]
                /\ pc' = "returned"
           ELSE /\ \E nb \in neighbor_orders(adjacency_entries(0, E_true, cur.pos),
                                             call.visited) :
                      \E st \in { explore_neighbors(nb, cur.path, Tail(call.queue),
                                                    call.visited) } :
                          call' = [call EXCEPT
                                      !.queue = st.queue,
                                      !.visited = st.visited,
                                      !.enqueued =
                                          [c \in DOMAIN @ |->
                                              @[c] + InQueue(st.queue, c)
                                                   - InQueue(Tail(call.queue), c)]]
                /\ pc' = pc
    /\ UNCHANGED <<prob, var_to_id, id_to_var, next_var, clauses, satfile, sat_status,
                   true_vars_ids, outmap, exit_status>>

\* decode.py:98-99: the queue is exhausted
BfsReturnNone ==
    /\ pc = "bfs" /\ call.queue = <<>>
    /\ call' = [call EXCEPT !.result = [done |-> TRUE, found |-> FALSE, path |-> <<>>]]
    /\ pc' = "returned"
    /\ UNCHANGED <<prob, var_to_id, id_to_var, next_var, clauses, satfile, sat_status,
                   true_vars_ids, outmap, exit_status>>

NextBfs == BfsStep \/ BfsReturnNone

\* the loop keeps running until it returns
SpecBfs == InitBfs /\ [][NextBfs]_vars /\ WF_vars(NextBfs)

\* the least number of true edges of line k that lead from the cells `seen`,
\* reached in d steps, to e; -1 when there is no such chain
RECURSIVE Dist(_, _, _, _)
Dist(k, seen, e, d) ==
    IF e \in seen THEN d
    ELSE LET more == seen \cup { Step(<<x[2], x[3]>>, x[4]) :
                                   x \in { x \in E_true : x[1] = k /\ <<x[2], x[3]>> \in seen } }
         IN  IF more = seen THEN -1 ELSE Dist(k, more, e, d + 1)

\* no cell is enqueued twice
EnqueuedOnce == \A c \in DOMAIN call.enqueued : call.enqueued[c] <= 1

\* the value returned is right: None exactly when the end cannot be reached,
\* else a shortest sequence of true edges from start to end
ReturnsShortest ==
    call.result.done =>
        /\ ~call.result.found <=> LineEnd(prob, 0) \notin ReachFrom(0, {LineStart(prob, 0)})
        /\ call.result.found =>
              /\ FollowsEdges(0, LineStart(prob, 0), LineEnd(prob, 0), call.result.path)
              /\ Len(call.result.path) = Dist(0, {LineStart(prob, 0)}, LineEnd(prob, 0), 0)

\* C15: for any set of true edge variables of a line, with cycles, branches
\* or edges off the path, perform_bfs_search terminates, enqueues each cell
\* at most once, returns None exactly when the end is not reachable from the
\* start along true edges, and otherwise returns directions that follow true
\* edges from start to end and are as few as any such route has.
C15_BfsTerminatesShortest ==
    /\ [](EnqueuedOnce /\ ReturnsShortest)
    /\ <>(call.result.done)

\* the search has returned a route of two steps although every cell has an
\* outgoing true edge (so there are cycles), the start has two, and some cell
\* branches three ways
C15_Witness ==
    /\ call.fn = "perform_bfs_search" /\ call.result.done /\ call.result.found
    /\ Len(call.result.path) = 2
    /\ Cardinality(TrueDirs(0, LineStart(prob, 0))) = 2
    /\ \A c \in Cells(prob.N, prob.M) : TrueDirs(0, c) # {}
    /\ \E c \in Cells(prob.N, prob.M) : Cardinality(TrueDirs(0, c)) = 3



----------------------------------------------------------------------------
(* The literals of the CNF file *)

\* the literals of the emitted clauses
EmittedLiterals == UNION { { clauses[i][j] : j \in 1..Len(clauses[i]) } : i \in 1..Len(clauses) }

\* C16: for every description the encoder accepts, every literal of every
\* emitted clause has its absolute value in 1..num_vars, the variable count
\* of the CNF header, the unit clauses on variable 1 of a popular cell
\* without candidate variables included, also when K = 0.
C16_LiteralsAllocated ==
    (pc = "encoded" /\ satfile.written) =>
        \A l \in EmittedLiterals : Abs(l) \in 1..satfile.num_vars


=============================================================================
